---- MODULE Spec2Model ----
(***************************************************************************)
(* A model of the zombie simulator: the Vector value type, the Zombie and  *)
(* Human movement policies, and the World (placement list, withCharacterAt,*)
(* viewpoint, _at, rows, tick), driven by a caller that issues calls on    *)
(* its current World value and may adopt a returned World.                 *)
(***************************************************************************)
EXTENDS Integers, Sequences, FiniteSets, TLC

(* ---- bounds of the model ---- *)
Width == 2
Height == 3

(* ---- JavaScript numbers: the integers plus Infinity ---- *)
Infinity == 1000000

JsAdd(a, b) == IF a = Infinity \/ b = Infinity THEN Infinity ELSE a + b
JsSub(a, b) == IF a = Infinity THEN Infinity ELSE a - b
JsPow2(a) == IF a = Infinity THEN Infinity ELSE a * a

(* ---- Vector ---- *)
Vector(dx, dy) == [dx |-> dx, dy |-> dy]

\* variant: a large finite sentinel in place of the unreachable vector
Infinite_finite == Vector(100, 100)

Infinite == Vector(Infinity, Infinity)

\* variant: the sum of the absolute offsets
distance_manhattan(v) ==
  JsAdd(IF v.dx < 0 THEN -v.dx ELSE v.dx, IF v.dy < 0 THEN -v.dy ELSE v.dy)

distance(v) == JsAdd(JsPow2(v.dx), JsPow2(v.dy))

equals(a, b) == a.dx = b.dx /\ a.dy = b.dy

add(a, b) == Vector(JsAdd(a.dx, b.dx), JsAdd(a.dy, b.dy))

sub(a, b) == Vector(JsSub(a.dx, b.dx), JsSub(a.dy, b.dy))

\* a constructor argument: given with a value, or left out (undefined)
Arg(v) == [given |-> TRUE, value |-> v]
NoArg == [given |-> FALSE, value |-> 0]

NoVector == [none |-> TRUE]

\* variant: an argument left out counts as zero
NewVector_defaultingZero(dx, dy) ==
  [thrown |-> "none", ret |-> Vector(dx.value, dy.value)]

\* new Vector(dx, dy): what is thrown and what is built
NewVector(dx, dy) ==
  IF ~ dx.given THEN [thrown |-> "Missing x offset", ret |-> NoVector]
  ELSE IF ~ dy.given THEN [thrown |-> "Missing y offset", ret |-> NoVector]
  ELSE [thrown |-> "none", ret |-> Vector(dx.value, dy.value)]

(* ---- occupants: referentially distinct objects of two classes ---- *)
\* the cast of the movement tests: zombie, zombie2 and human
Zombies == {[class |-> "Zombie", id |-> "zombie"], [class |-> "Zombie", id |-> "zombie2"]}
Humans == {[class |-> "Human", id |-> "human"]}
Occupants == Zombies \cup Humans
Null == [class |-> "null", id |-> "null"]
Undefined == [class |-> "undefined", id |-> "undefined"]

living(c) == c.class = "Human"

Unit == {-1, 0, 1}

(* ---- Zombie ---- *)
\* the nine single moves, dx in the outer loop and dy in the inner one
\* variant: the single moves built from [-2, 0, 2]
_moves_withJumps ==
  [i \in 1..9 |-> Vector(2 * (((i - 1) \div 3) - 1), 2 * (((i - 1) % 3) - 1))]

_moves == [i \in 1..9 |-> Vector(((i - 1) \div 3) - 1, ((i - 1) % 3) - 1)]

\* variant: a target as near as the best so far replaces it
RECURSIVE BestTarget_lastWins(_, _)
BestTarget_lastWins(targets, best) ==
  IF targets = <<>> THEN best
  ELSE BestTarget_lastWins(Tail(targets),
                           IF distance(Head(targets)) <= distance(best)
                           THEN Head(targets) ELSE best)

\* targets.forEach: keep the first target of strictly smallest distance
RECURSIVE BestTarget(_, _)
BestTarget(targets, best) ==
  IF targets = <<>> THEN best
  ELSE BestTarget(Tail(targets),
                  IF distance(Head(targets)) < distance(best)
                  THEN Head(targets) ELSE best)

\* variant: the two distances subtracted the wrong way round
compareMoves_reversed(moveA, moveB, bestTarget) ==
  LET distA == distance(sub(bestTarget, moveA))
      distB == distance(sub(bestTarget, moveB))
  IN IF distA # distB THEN distB - distA
     ELSE distance(moveA) - distance(moveB)

\* variant: moves ranked by the distance left only, not by their length
compareMoves_distanceOnly(moveA, moveB, bestTarget) ==
  distance(sub(bestTarget, moveA)) - distance(sub(bestTarget, moveB))

compareMoves(moveA, moveB, bestTarget) ==
  LET distA == distance(sub(bestTarget, moveA))
      distB == distance(sub(bestTarget, moveB))
  IN IF distA # distB THEN distA - distB
     ELSE distance(moveA) - distance(moveB)

\* variant: an unstable sort, a move goes before the moves it compares equal to
RECURSIVE InsertMove_unstable(_, _, _)
InsertMove_unstable(sorted, m, bestTarget) ==
  IF sorted = <<>> THEN <<m>>
  ELSE IF compareMoves(sorted[Len(sorted)], m, bestTarget) >= 0
       THEN Append(InsertMove_unstable(SubSeq(sorted, 1, Len(sorted) - 1), m, bestTarget),
                   sorted[Len(sorted)])
       ELSE Append(sorted, m)

\* Array.prototype.sort on at most nine elements: a stable insertion sort
RECURSIVE InsertMove(_, _, _)
InsertMove(sorted, m, bestTarget) ==
  IF sorted = <<>> THEN <<m>>
  ELSE IF compareMoves(sorted[Len(sorted)], m, bestTarget) > 0
       THEN Append(InsertMove(SubSeq(sorted, 1, Len(sorted) - 1), m, bestTarget),
                   sorted[Len(sorted)])
       ELSE Append(sorted, m)

RECURSIVE SortMoves(_, _)
SortMoves(moves, bestTarget) ==
  IF moves = <<>> THEN <<>>
  ELSE InsertMove(SortMoves(SubSeq(moves, 1, Len(moves) - 1), bestTarget),
                  moves[Len(moves)], bestTarget)

\* variant: only the living are taken for obstacles
Obstacles_livingOnly(self, environment) ==
  LET others == SelectSeq(environment, LAMBDA t : living(t.character))
  IN [i \in 1..Len(others) |-> Vector(others[i].dx, others[i].dy)]

Obstacles(self, environment) ==
  LET others == SelectSeq(environment, LAMBDA t : t.character # self)
  IN [i \in 1..Len(others) |-> Vector(others[i].dx, others[i].dy)]

Targets(environment) ==
  LET alive == SelectSeq(environment, LAMBDA t : living(t.character))
  IN [i \in 1..Len(alive) |-> Vector(alive[i].dx, alive[i].dy)]

\* variant: every single move counts as free
FreeMoves_ignoringObstacles(obstacles) == _moves

FreeMoves(obstacles) ==
  SelectSeq(_moves,
            LAMBDA move : ~ \E i \in 1..Len(obstacles) : equals(obstacles[i], move))

\* variant: a target two cells away on an axis counts as in biting range
BitingRange_wide(bestTarget) == distance(bestTarget) <= 4

\* bestTarget.distance <= 2: no more than 1 away in either direction
\* variant: only the four cells sharing an edge are in biting range
BitingRange_orthogonal(bestTarget) == distance(bestTarget) <= 1

BitingRange(bestTarget) == distance(bestTarget) <= 2

\* bestTarget once targets.forEach has run
SelectedTarget(environment) == BestTarget(Targets(environment), Infinite)

ZombieMove(self, environment) ==
  LET obstacles == Obstacles(self, environment)
      bestTarget == SelectedTarget(environment)
  IN IF BitingRange(bestTarget)
     THEN Vector(0, 0)
     ELSE LET sortedMoves == SortMoves(FreeMoves(obstacles), bestTarget)
          IN IF sortedMoves = <<>> THEN Undefined ELSE sortedMoves[1]

(* ---- Human ---- *)
\* variant: humans step aside
HumanMove_wandering(environment) == Vector(1, 0)

HumanMove(environment) == Vector(0, 0)

\* charRecord.character.move(viewpoint): dispatch on the occupant's class
Move(character, environment) ==
  IF character.class = "Zombie" THEN ZombieMove(character, environment)
  ELSE HumanMove(environment)

(* ---- World ---- *)
World(width, height, characters) ==
  [width |-> width, height |-> height, characters |-> characters]

NoWorld == [none |-> TRUE]

\* variant: the coordinates stored the wrong way round
CharRecord_swapped(x, y, character) == [x |-> y, y |-> x, character |-> character]

CharRecord(x, y, character) == [x |-> x, y |-> y, character |-> character]

\* variant: the moving character's old record is kept
WithoutCharacter_keepingAll(characters, character) == characters

\* this.characters.filter(cr => cr.character !== character)
WithoutCharacter(characters, character) ==
  SelectSeq(characters, LAMBDA cr : cr.character # character)

\* variant: the destination is never found occupied
Occupied_never(characters, x, y) == FALSE

\* newCharacters.some(cr => cr.x === x && cr.y === y)
Occupied(characters, x, y) ==
  \E i \in 1..Len(characters) : characters[i].x = x /\ characters[i].y = y

\* variant: whoever holds the destination is removed instead of an error
WithCharacterAt_evicting(w, character, x, y) ==
  IF character = Null
  THEN [thrown |-> "null", ret |-> NoWorld, self |-> w]
  ELSE LET newCharacters ==
             SelectSeq(WithoutCharacter(w.characters, character),
                       LAMBDA cr : ~ (cr.x = x /\ cr.y = y))
       IN [thrown |-> "none",
           ret |-> World(w.width, w.height,
                         Append(newCharacters, CharRecord(x, y, character))),
           self |-> w]

\* variant: the new record is pushed onto the receiver's own array
WithCharacterAt_inPlace(w, character, x, y) ==
  IF character = Null
  THEN [thrown |-> "null", ret |-> NoWorld, self |-> w]
  ELSE LET newCharacters == WithoutCharacter(w.characters, character)
           pushed == World(w.width, w.height,
                           Append(newCharacters, CharRecord(x, y, character)))
       IN IF Occupied(newCharacters, x, y)
          THEN [thrown |-> "occupied", ret |-> NoWorld, self |-> w]
          ELSE [thrown |-> "none", ret |-> pushed, self |-> pushed]

\* variant: the new record is put at the front of the list
WithCharacterAt_unshifting(w, character, x, y) ==
  IF character = Null
  THEN [thrown |-> "null", ret |-> NoWorld, self |-> w]
  ELSE LET newCharacters == WithoutCharacter(w.characters, character)
       IN IF Occupied(newCharacters, x, y)
          THEN [thrown |-> "occupied", ret |-> NoWorld, self |-> w]
          ELSE [thrown |-> "none",
                ret |-> World(w.width, w.height,
                              <<CharRecord(x, y, character)>> \o newCharacters),
                self |-> w]

\* the outcome of a call: what was thrown, what was returned, and the
\* receiver as the call leaves it
WithCharacterAt(w, character, x, y) ==
  IF character = Null
  THEN [thrown |-> "null", ret |-> NoWorld, self |-> w]
  ELSE LET newCharacters == WithoutCharacter(w.characters, character)
       IN IF Occupied(newCharacters, x, y)
          THEN [thrown |-> "occupied", ret |-> NoWorld, self |-> w]
          ELSE [thrown |-> "none",
                ret |-> World(w.width, w.height,
                              Append(newCharacters, CharRecord(x, y, character))),
                self |-> w]

\* variant: the record at the queried cell is left out
Viewpoint_withoutSelf(w, x, y) ==
  LET others == SelectSeq(w.characters, LAMBDA cr : ~ (cr.x = x /\ cr.y = y))
  IN [i \in 1..Len(others) |->
        [dx |-> others[i].x - x,
         dy |-> others[i].y - y,
         character |-> others[i].character]]

\* variant: the offsets taken from the occupant to the queried cell
Viewpoint_reversedOffsets(w, x, y) ==
  [i \in 1..Len(w.characters) |->
     [dx |-> x - w.characters[i].x,
      dy |-> y - w.characters[i].y,
      character |-> w.characters[i].character]]

Viewpoint(w, x, y) ==
  [i \in 1..Len(w.characters) |->
     [dx |-> w.characters[i].x - x,
      dy |-> w.characters[i].y - y,
      character |-> w.characters[i].character]]

\* characters.find(r => r.x == x && r.y == y): the first match, if any
Find(characters, x, y) ==
  LET matches == SelectSeq(characters, LAMBDA r : r.x = x /\ r.y = y)
  IN IF matches = <<>> THEN Undefined ELSE Head(matches).character

\* variant: the upper bounds tested with > instead of >=
_at_offByOne(w, x, y) ==
  IF x < 0 \/ x > w.width \/ y < 0 \/ y > w.height
  THEN Undefined
  ELSE LET found == Find(w.characters, x, y)
       IN IF found = Undefined THEN Null ELSE found

_at(w, x, y) ==
  IF x < 0 \/ x >= w.width \/ y < 0 \/ y >= w.height
  THEN Undefined
  ELSE LET found == Find(w.characters, x, y)
       IN IF found = Undefined THEN Null ELSE found

\* variant: the matrix indexed by column first
rows_columnMajor(w) ==
  [colNum \in 1..w.width |->
     [rowNum \in 1..w.height |-> _at(w, colNum - 1, rowNum - 1)]]

rows(w) ==
  [rowNum \in 1..w.height |->
     [colNum \in 1..w.width |-> _at(w, colNum - 1, rowNum - 1)]]

(* ---- state ---- *)
VARIABLES
  world,   \* the caller's current World value (the receiver of its calls)
  last,    \* the last completed call on world and its outcome
  pc,      \* "idle", or "tick" while tick()'s reduce is running
  acc,     \* the reduce accumulator (the fold value) while pc = "tick"
  k,       \* the number of records of world.characters already processed
  cb       \* the last invocation of the reduce callback

vars == <<world, last, pc, acc, k, cb>>

NoCall ==
  [op |-> "none", recv |-> NoWorld, character |-> Null, x |-> 0, y |-> 0,
   thrown |-> "none", ret |-> NoWorld, cell |-> Undefined, view |-> <<>>,
   target |-> Vector(0, 0), move |-> Vector(0, 0), arg |-> <<>>, rows |-> <<>>,
   value |-> 0]

NoCb ==
  [world |-> NoWorld, character |-> Null, x |-> 0, y |-> 0,
   viewpoint |-> <<>>, move |-> Vector(0, 0)]

Cells == (0..(Width - 1)) \X (0..(Height - 1))
Points == ((-1)..Width) \X ((-1)..Height)

Init ==
  /\ world = World(Width, Height, <<>>)
  /\ last = NoCall
  /\ pc = "idle"
  /\ acc = NoWorld
  /\ k = 0
  /\ cb = NoCb

\* world.withCharacterAt(character, x, y), the result kept beside world
CallWithCharacterAt(character, x, y) ==
  /\ pc = "idle"
  /\ last.op = "none"
  /\ LET out == WithCharacterAt(world, character, x, y)
     IN /\ world' = out.self
        /\ last' = [NoCall EXCEPT !.op = "withCharacterAt", !.recv = world,
                                  !.character = character, !.x = x, !.y = y,
                                  !.thrown = out.thrown, !.ret = out.ret]
  /\ UNCHANGED <<pc, acc, k, cb>>

\* world = <the World the last call returned>
Adopt ==
  /\ pc = "idle"
  /\ last.op \in {"withCharacterAt", "tick", "new"}
  /\ last.thrown = "none"
  /\ world' = last.ret
  /\ last' = NoCall
  /\ cb' = NoCb
  /\ UNCHANGED <<pc, acc, k>>

CallAt(x, y) ==
  /\ pc = "idle"
  /\ last.op = "none"
  /\ last' = [NoCall EXCEPT !.op = "at", !.recv = world, !.x = x, !.y = y,
                            !.cell = _at(world, x, y)]
  /\ UNCHANGED <<world, pc, acc, k, cb>>

CallViewpoint(x, y) ==
  /\ pc = "idle"
  /\ last.op = "none"
  /\ last' = [NoCall EXCEPT !.op = "viewpoint", !.recv = world, !.x = x, !.y = y,
                            !.view = Viewpoint(world, x, y)]
  /\ UNCHANGED <<world, pc, acc, k, cb>>

\* the caller is done with the result of the last call and keeps world
Drop ==
  /\ pc = "idle"
  /\ last.op # "none"
  /\ last' = NoCall
  /\ cb' = NoCb
  /\ UNCHANGED <<world, pc, acc, k>>

\* world.tick(): reduce starts with the receiver itself as the accumulator
TickBegin ==
  /\ pc = "idle"
  /\ last.op = "none"
  /\ pc' = "tick"
  /\ acc' = world
  /\ k' = 0
  /\ cb' = NoCb
  /\ last' = NoCall
  /\ UNCHANGED world

\* the record the next invocation of the reduce callback is given
CallbackRecord == world.characters[k + 1]

\* variant: the viewpoint taken from the World tick() was called on
CallbackViewpoint_fromStart ==
  Viewpoint(world, CallbackRecord.x, CallbackRecord.y)

\* world.viewpoint(charRecord.x, charRecord.y), world being the accumulator
CallbackViewpoint ==
  Viewpoint(acc, CallbackRecord.x, CallbackRecord.y)

\* variant: a move onto an occupied cell is skipped and the fold goes on
ApplyMove_skipping(w, charRecord, move) ==
  LET out == WithCharacterAt(w, charRecord.character,
                             charRecord.x + move.dx, charRecord.y + move.dy)
  IN IF out.thrown = "occupied"
     THEN [thrown |-> "none", ret |-> w, self |-> w]
     ELSE out

\* world.withCharacterAt(charRecord.character, charRecord.x + move.dx, ...)
ApplyMove(w, charRecord, move) ==
  WithCharacterAt(w, charRecord.character,
                  charRecord.x + move.dx, charRecord.y + move.dy)

\* the rest of the callback once the occupant's move is known
TickApply(move) ==
  IF move = Undefined
  THEN /\ pc' = "idle"
       /\ last' = [NoCall EXCEPT !.op = "tick", !.recv = world,
                                 !.thrown = "TypeError"]
       /\ acc' = NoWorld
       /\ k' = 0
       /\ cb' = NoCb
       /\ UNCHANGED world
  ELSE LET out == ApplyMove(acc, CallbackRecord, move)
       IN /\ cb' = [world |-> acc, character |-> CallbackRecord.character,
                    x |-> CallbackRecord.x, y |-> CallbackRecord.y,
                    viewpoint |-> CallbackViewpoint, move |-> move]
          \* in the first invocation the accumulator is the receiver
          /\ world' = IF k = 0 THEN out.self ELSE world
          /\ IF out.thrown = "none"
             THEN /\ acc' = out.ret
                  /\ k' = k + 1
                  /\ UNCHANGED <<pc, last>>
             ELSE /\ pc' = "idle"
                  /\ last' = [NoCall EXCEPT !.op = "tick", !.recv = world,
                                            !.thrown = out.thrown]
                  /\ acc' = NoWorld
                  /\ k' = 0

\* one invocation of the reduce callback, on record k + 1 of this.characters
TickStep ==
  /\ pc = "tick"
  /\ k < Len(world.characters)
  /\ TickApply(Move(CallbackRecord.character, CallbackViewpoint))

\* reduce has visited every record: tick() returns the accumulator
TickReturn ==
  /\ pc = "tick"
  /\ k = Len(world.characters)
  /\ pc' = "idle"
  /\ last' = [NoCall EXCEPT !.op = "tick", !.recv = world, !.ret = acc]
  /\ acc' = NoWorld
  /\ k' = 0
  /\ cb' = NoCb
  /\ UNCHANGED world

(* ---- zombie.move(environment) called on its own ---- *)
MaxOffset == 3

Offsets == ((-MaxOffset)..MaxOffset) \X ((-MaxOffset)..MaxOffset)
\* the second human stands within two cells of the mover
NearOffsets == ((-2)..2) \X ((-2)..2)
Neighbours == (Unit \X Unit) \ {<<0, 0>>}

\* the zombie whose move is called, and the occupants around it
Mover == [class |-> "Zombie", id |-> "zombie"]
OtherZombies ==
  << [class |-> "Zombie", id |-> "zombie2"],
     [class |-> "Zombie", id |-> "zombie3"],
     [class |-> "Zombie", id |-> "zombie4"],
     [class |-> "Zombie", id |-> "zombie5"],
     [class |-> "Zombie", id |-> "zombie6"],
     [class |-> "Zombie", id |-> "zombie7"],
     [class |-> "Zombie", id |-> "zombie8"],
     [class |-> "Zombie", id |-> "zombie9"] >>
FirstHuman == [class |-> "Human", id |-> "human"]
SecondHuman == [class |-> "Human", id |-> "human2"]

Absent == <<MaxOffset + 1, MaxOffset + 1>>

At(p, character) ==
  IF p = Absent THEN <<>> ELSE <<[dx |-> p[1], dy |-> p[2], character |-> character]>>

\* an environment: the mover itself or not, zombies next to it, and up
\* to two humans, no two of them at the same offset
Environment(withSelf, zombieCells, h1, h2) ==
  LET cells == SelectSeq(_moves, LAMBDA m : <<m.dx, m.dy>> \in zombieCells)
  IN (IF withSelf THEN At(<<0, 0>>, Mover) ELSE <<>>)
     \o [i \in 1..Len(cells) |->
           [dx |-> cells[i].dx, dy |-> cells[i].dy, character |-> OtherZombies[i]]]
     \o At(h1, FirstHuman) \o At(h2, SecondHuman)

\* the cells zombies stand on around the mover: up to three of its
\* neighbours, or all eight of them
Crowds == {S \in SUBSET Neighbours : Cardinality(S) <= 3} \cup {Neighbours}

MoveInit ==
  /\ world = World(Width, Height, <<>>)
  /\ pc = "idle"
  /\ acc = NoWorld
  /\ k = 0
  /\ cb = NoCb
  /\ \E withSelf \in BOOLEAN,
        zombieCells \in Crowds,
        h1 \in (Offsets \ {<<0, 0>>}) \cup {Absent},
        h2 \in (NearOffsets \ {<<0, 0>>}) \cup {Absent} :
        /\ h1 \notin zombieCells
        /\ h2 \notin zombieCells
        /\ h1 = h2 => h1 = Absent
        /\ last = [NoCall EXCEPT !.op = "environment",
                                 !.view = Environment(withSelf, zombieCells, h1, h2)]

\* zombie.move(environment)
CallMove ==
  /\ pc = "idle"
  /\ last.op = "environment"
  /\ last' = [last EXCEPT !.op = "move",
                          !.character = Mover,
                          !.target = SelectedTarget(last.view),
                          !.move = ZombieMove(Mover, last.view)]
  /\ UNCHANGED <<world, pc, acc, k, cb>>

MoveNext ==
  \/ CallMove
  \/ Drop

MoveSpec == MoveInit /\ [][MoveNext]_vars

\* one invocation of the reduce callback for an occupant of any movement
\* policy: charRecord.character.move(viewpoint) may return any single
\* move that stays on the grid
PolicyTickStep ==
  /\ pc = "tick"
  /\ k < Len(world.characters)
  /\ \E i \in 1..Len(_moves) :
       /\ <<CallbackRecord.x + _moves[i].dx, CallbackRecord.y + _moves[i].dy>> \in Cells
       /\ TickApply(_moves[i])

PolicyNext ==
  \/ \E character \in Occupants, p \in Cells :
       CallWithCharacterAt(character, p[1], p[2])
  \/ Adopt
  \/ Drop
  \/ TickBegin
  \/ PolicyTickStep
  \/ TickReturn

PolicySpec == Init /\ [][PolicyNext]_vars

(* ---- building a World: the constructor, populatedBy and rows ---- *)
\* the placement lists handed to the constructor: up to two records,
\* on or just off the grid, or no list at all
Placements == {CharRecord(p[1], p[2], o) : p \in Points, o \in Occupants}
PlacementLists ==
  {<<>>} \cup {<<r>> : r \in Placements} \cup {<<r, q>> : r, q \in Placements}

\* the characters argument left out of the call
Omitted == <<Undefined>>

\* whether a placement list keeps the three invariants of a World
ValidPlacements(width, height, characters) ==
  /\ \A i \in 1..Len(characters) :
       ~ (characters[i].x < 0 \/ characters[i].x >= width
          \/ characters[i].y < 0 \/ characters[i].y >= height)
  /\ \A i, j \in 1..Len(characters) :
       i # j => /\ ~ (characters[i].x = characters[j].x /\ characters[i].y = characters[j].y)
                /\ characters[i].character # characters[j].character

\* variant: the constructor refuses a list that breaks an invariant
NewWorld_validating(width, height, characters) ==
  IF characters = Omitted
  THEN [thrown |-> "none", ret |-> World(width, height, <<>>)]
  ELSE IF ValidPlacements(width, height, characters)
       THEN [thrown |-> "none", ret |-> World(width, height, characters)]
       ELSE [thrown |-> "invalid", ret |-> NoWorld]

\* new World(width, height, characters): what is thrown and what is built
NewWorld(width, height, characters) ==
  IF characters = Omitted
  THEN [thrown |-> "none", ret |-> World(width, height, <<>>)]
  ELSE [thrown |-> "none", ret |-> World(width, height, characters)]

\* world = new World(Width, Height, characters), once, at the start
CallNew ==
  /\ pc = "idle"
  /\ last.op = "none"
  /\ world = World(Width, Height, <<>>)
  /\ \E characters \in PlacementLists \cup {Omitted} :
       LET out == NewWorld(Width, Height, characters)
       IN last' = [NoCall EXCEPT !.op = "new", !.arg = characters,
                                 !.thrown = out.thrown, !.ret = out.ret]
  /\ UNCHANGED <<world, pc, acc, k, cb>>

\* world.rows
CallRows ==
  /\ pc = "idle"
  /\ last.op = "none"
  /\ last' = [NoCall EXCEPT !.op = "rows", !.recv = world, !.rows = rows(world)]
  /\ UNCHANGED <<world, pc, acc, k, cb>>

\* population.next(), call number n: nothing, or a new character (a new
\* Human is placed the same way: populatedBy never looks at the class)
PopulationNext(n) == {Null, [class |-> "Zombie", id |-> ToString(n)]}

\* variant: the cells scanned with y in the outer loop
PopulateCell_rowMajor(n, width, height) == <<n % width, n \div width>>

\* the cell (x, y) the loops are at after n calls of populator.next():
\* x runs in the outer loop, y in the inner one
PopulateCell(n, width, height) == <<n \div height, n % height>>

\* World.populatedBy(Width, Height, population), at the start
PopulateBegin ==
  /\ pc = "idle"
  /\ last.op = "none"
  /\ world = World(Width, Height, <<>>)
  /\ pc' = "populate"
  /\ acc' = NewWorld(Width, Height, Omitted).ret
  /\ k' = 0
  /\ last' = [NoCall EXCEPT !.op = "populatedBy"]
  /\ UNCHANGED <<world, cb>>

\* one turn of the inner loop: a call of populator.next() and, unless it
\* yields null, world = world.withCharacterAt(newCharacter, x, y)
PopulateStep ==
  /\ pc = "populate"
  /\ k < Width * Height
  /\ \E newCharacter \in PopulationNext(k) :
       LET cell == PopulateCell(k, Width, Height)
           out == IF newCharacter # Null
                  THEN WithCharacterAt(acc, newCharacter, cell[1], cell[2])
                  ELSE [thrown |-> "none", ret |-> acc, self |-> acc]
       IN IF out.thrown = "none"
          THEN /\ acc' = out.ret
               /\ k' = k + 1
               /\ last' = [last EXCEPT !.arg = Append(@, newCharacter)]
               /\ UNCHANGED pc
          ELSE /\ pc' = "idle"
               /\ acc' = NoWorld
               /\ k' = 0
               /\ last' = [last EXCEPT !.arg = Append(@, newCharacter),
                                       !.thrown = out.thrown]
  /\ UNCHANGED <<world, cb>>

\* return world
PopulateReturn ==
  /\ pc = "populate"
  /\ k = Width * Height
  /\ pc' = "idle"
  /\ last' = [last EXCEPT !.ret = acc]
  /\ acc' = NoWorld
  /\ k' = 0
  /\ UNCHANGED <<world, cb>>

BuildNext ==
  \/ CallNew
  \/ Adopt
  \/ Drop
  \/ CallRows
  \/ PopulateBegin
  \/ PopulateStep
  \/ PopulateReturn

BuildSpec == Init /\ [][BuildNext]_vars

(* ---- Vector on its own: the constructor, add, sub and distance ---- *)
MaxCoord == 2

Coords == (-MaxCoord)..MaxCoord
FiniteVectors == {Vector(c[1], c[2]) : c \in Coords \X Coords}
Args == {Arg(c) : c \in Coords \cup {Infinity}} \cup {NoArg}

\* new Vector(dx, dy), either argument possibly left out
CallVector ==
  /\ pc = "idle"
  /\ last.op = "none"
  /\ \E dx \in Args, dy \in Args :
       LET out == NewVector(dx, dy)
       IN last' = [NoCall EXCEPT !.op = "Vector", !.arg = <<dx, dy>>,
                                 !.thrown = out.thrown, !.ret = out.ret]
  /\ UNCHANGED <<world, pc, acc, k, cb>>

\* v.add(other), v a finite vector or Vector.Infinite, other finite
CallAdd ==
  /\ pc = "idle"
  /\ last.op = "none"
  /\ \E v \in FiniteVectors \cup {Infinite}, other \in FiniteVectors :
       last' = [NoCall EXCEPT !.op = "add", !.target = v, !.move = other,
                              !.ret = add(v, other)]
  /\ UNCHANGED <<world, pc, acc, k, cb>>

\* v.sub(other)
CallSub ==
  /\ pc = "idle"
  /\ last.op = "none"
  /\ \E v \in FiniteVectors \cup {Infinite}, other \in FiniteVectors :
       last' = [NoCall EXCEPT !.op = "sub", !.target = v, !.move = other,
                              !.ret = sub(v, other)]
  /\ UNCHANGED <<world, pc, acc, k, cb>>

\* v.distance
CallDistance ==
  /\ pc = "idle"
  /\ last.op = "none"
  /\ \E v \in FiniteVectors \cup {Infinite} :
       last' = [NoCall EXCEPT !.op = "distance", !.target = v,
                              !.value = distance(v)]
  /\ UNCHANGED <<world, pc, acc, k, cb>>

VectorNext ==
  \/ CallVector
  \/ CallAdd
  \/ CallSub
  \/ CallDistance
  \/ Drop

VectorSpec == Init /\ [][VectorNext]_vars

(* ---- the driver loop: world = world.tick(), again and again ---- *)
\* the Worlds the loop can start from: some of the cast, in any order,
\* each on a cell of its own
StartLists ==
  LET onGrid == {CharRecord(p[1], p[2], o) : p \in Cells, o \in Occupants}
  IN {l \in UNION {[1..n -> onGrid] : n \in 0..Cardinality(Occupants)} :
        ValidPlacements(Width, Height, l)}

TickInit ==
  /\ \E l \in StartLists : world = World(Width, Height, l)
  /\ last = NoCall
  /\ pc = "idle"
  /\ acc = NoWorld
  /\ k = 0
  /\ cb = NoCb

TickNext ==
  \/ TickBegin
  \/ TickStep
  \/ TickReturn
  \/ Adopt
  \/ Drop

TickSpec == TickInit /\ [][TickNext]_vars

\* the cast of the loop: the occupants above and a second human, so that
\* a zombie has targets to choose between
LoopCast == Occupants \cup {SecondHuman}

\* the Worlds the loop can start from: as many of its cast as the Worlds
\* above hold, in any order, each on a cell of its own
LoopLists ==
  LET onGrid == {CharRecord(p[1], p[2], o) : p \in Cells, o \in LoopCast}
  IN {l \in UNION {[1..n -> onGrid] : n \in 0..Cardinality(Occupants)} :
        ValidPlacements(Width, Height, l)}

LoopInit ==
  /\ \E l \in LoopLists : world = World(Width, Height, l)
  /\ last = NoCall
  /\ pc = "idle"
  /\ acc = NoWorld
  /\ k = 0
  /\ cb = NoCb

\* while(true) { ...; world = world.tick(); ... }: the loop never drops a
\* result and never stops of its own accord
LoopNext ==
  \/ TickBegin
  \/ TickStep
  \/ TickReturn
  \/ Adopt

\* where the loop stands in the tick it is running
LoopAt == <<pc, k>>

\* what TickStep does to LoopAt: under TickStep's guard, reduce goes on to
\* its next record or tick() ends by a throw. The callback returns for
\* every record, so TickStep is enabled exactly where TickStepAt is, and
\* the TickStep steps are the steps of the loop that are TickStepAt steps
TickStepAt ==
  /\ pc = "tick"
  /\ k < Len(world.characters)
  /\ \/ pc' = "tick" /\ k' = k + 1
     \/ pc' = "idle" /\ k' = 0

\* the loop is never suspended for good: each statement of it that can run
\* does run
LoopSpec ==
  /\ LoopInit
  /\ [][LoopNext]_vars
  /\ WF_vars(TickBegin)
  /\ WF_LoopAt(TickStepAt)
  /\ WF_vars(TickReturn)
  /\ WF_vars(Adopt)

Next ==
  \/ \E character \in Occupants \cup {Null}, p \in Cells :
       CallWithCharacterAt(character, p[1], p[2])
  \/ Adopt
  \/ Drop
  \/ \E p \in Points : CallAt(p[1], p[2])
  \/ \E p \in Points : CallViewpoint(p[1], p[2])
  \/ TickBegin
  \/ TickStep
  \/ TickReturn

Spec == Init /\ [][Next]_vars

(* ---- vocabulary of the properties ---- *)
Recs(w) == {w.characters[i] : i \in 1..Len(w.characters)}

IsWorld(w) == w # NoWorld

NoSharedCell(w) ==
  \A i, j \in 1..Len(w.characters) :
    w.characters[i].character # w.characters[j].character
      => ~ (w.characters[i].x = w.characters[j].x /\ w.characters[i].y = w.characters[j].y)

HeldByOther(w, o, x, y) ==
  \E r \in Recs(w) : r.x = x /\ r.y = y /\ r.character # o

InBounds(w) ==
  \A r \in Recs(w) : 0 <= r.x /\ r.x < w.width /\ 0 <= r.y /\ r.y < w.height

OutOfBounds(w, x, y) == x < 0 \/ x >= w.width \/ y < 0 \/ y >= w.height

InCallback == pc = "tick" /\ cb # NoCb

(* C1: no World the caller holds, no World a call returns and no          *)
(* intermediate fold value of tick() has two distinct occupants on the     *)
(* same cell.                                                              *)
C1_Occupancy ==
  /\ NoSharedCell(world)
  /\ (IsWorld(last.ret) => NoSharedCell(last.ret))
  /\ (pc = "tick" => NoSharedCell(acc))

C1_Witness ==
  /\ pc = "tick"
  /\ k >= 2
  /\ Len(acc.characters) >= 3
  /\ cb.move # Vector(0, 0)

(* C2: tick() never raises the occupied-cell error: the destination of     *)
(* every proposed move is not held by a different occupant of the fold     *)
(* value the move is applied to.                                           *)
C2_TickNeverCollides ==
  /\ (last.op = "tick" => last.thrown = "none")
  /\ (InCallback =>
        ~ HeldByOther(cb.world, cb.character,
                      cb.x + cb.move.dx, cb.y + cb.move.dy))

C2_Witness ==
  /\ InCallback
  /\ cb.character \in Zombies
  /\ cb.move # Vector(0, 0)
  /\ \E e \in {cb.viewpoint[i] : i \in 1..Len(cb.viewpoint)} :
       /\ e.character # cb.character
       /\ e.dx \in {-1, 0, 1}
       /\ e.dy \in {-1, 0, 1}

(* C3 (as claimed): every placement of every World reached by tick() from  *)
(* in-bounds Worlds is inside the grid.                                    *)
C3_AlwaysInBounds ==
  /\ InBounds(world)
  /\ (IsWorld(last.ret) => InBounds(last.ret))
  /\ (pc = "tick" => InBounds(acc))

(* C4: withCharacterAt onto a cell held by a different occupant throws the *)
(* occupied-cell error, returns no World and leaves the receiver as it was.*)
C4_CollisionRejected ==
  (/\ last.op = "withCharacterAt"
   /\ last.character # Null
   /\ HeldByOther(last.recv, last.character, last.x, last.y))
  => /\ last.thrown = "occupied"
     /\ last.ret = NoWorld
     /\ world = last.recv

C4_Witness ==
  /\ last.op = "withCharacterAt"
  /\ last.character # Null
  /\ HeldByOther(last.recv, last.character, last.x, last.y)
  /\ last.thrown = "occupied"

(* C5: withCharacterAt(o, x, y) with o already at (x, y) succeeds and the  *)
(* returned World has the same rows as the receiver.                       *)
C5_NoOpMove ==
  (/\ last.op = "withCharacterAt"
   /\ CharRecord(last.x, last.y, last.character) \in Recs(last.recv))
  => /\ last.thrown = "none"
     /\ IsWorld(last.ret)
     /\ rows(last.ret) = rows(last.recv)

C5_Witness ==
  /\ last.op = "withCharacterAt"
  /\ CharRecord(last.x, last.y, last.character) \in Recs(last.recv)
  /\ Len(last.recv.characters) >= 2
  /\ last.recv.characters[1].character = last.character
  /\ IsWorld(last.ret)

(* C6: a successful withCharacterAt(o, x, y) onto a free cell returns a    *)
(* World with o at (x, y) and nowhere else, and with every other occupant  *)
(* exactly where the receiver had it.                                      *)
C6_Relocation ==
  (/\ last.op = "withCharacterAt"
   /\ last.thrown = "none"
   /\ ~ \E r \in Recs(last.recv) : r.x = last.x /\ r.y = last.y)
  => /\ IsWorld(last.ret)
     /\ \A r \in Recs(last.ret) :
          r.character = last.character => r.x = last.x /\ r.y = last.y
     /\ CharRecord(last.x, last.y, last.character) \in Recs(last.ret)
     /\ \A r \in Recs(last.recv) :
          r.character = last.character => _at(last.ret, r.x, r.y) \in {Null, Undefined}
     /\ {r \in Recs(last.ret) : r.character # last.character}
          = {r \in Recs(last.recv) : r.character # last.character}

C6_Witness ==
  /\ last.op = "withCharacterAt"
  /\ last.thrown = "none"
  /\ ~ \E r \in Recs(last.recv) : r.x = last.x /\ r.y = last.y
  /\ \E r \in Recs(last.recv) : r.character = last.character
  /\ \E r \in Recs(last.recv) : r.character # last.character
  /\ last.x # last.y

(* C7: no step of a withCharacterAt or tick() call, successful or failing, *)
(* changes the World it is called on.                                      *)
C7_ReceiverUntouched ==
  [][(pc = "tick" \/ pc' = "tick" \/ (last.op = "none" /\ last'.op # "none"))
       => world' = world]_vars

C7_Witness ==
  /\ last.op = "tick"
  /\ last.thrown = "none"
  /\ rows(last.ret) # rows(last.recv)
  /\ world = last.recv

(* C8: at(x, y) is undefined exactly for coordinates outside the grid; for *)
(* coordinates inside it is null when no placement is there and otherwise  *)
(* the occupant placed there; undefined and null are different results.    *)
C8_AtBounds ==
  last.op = "at"
  => /\ (last.cell = Undefined <=> OutOfBounds(last.recv, last.x, last.y))
     /\ (~ OutOfBounds(last.recv, last.x, last.y)
           => IF \E r \in Recs(last.recv) : r.x = last.x /\ r.y = last.y
              THEN CharRecord(last.x, last.y, last.cell) \in Recs(last.recv)
              ELSE last.cell = Null)
     /\ Undefined # Null

C8_Witness ==
  /\ last.op = "at"
  /\ last.x = last.recv.width
  /\ last.y = 0
  /\ Len(last.recv.characters) >= 1
  /\ last.cell = Undefined

(* C9 (as claimed): the viewpoint has no entry for the occupant located at *)
(* the queried cell, in direct calls and in the viewpoint tick() passes to *)
(* move.                                                                   *)
C9_SelfExcluded ==
  /\ (last.op = "viewpoint" =>
        \A i \in 1..Len(last.view) :
          CharRecord(last.x, last.y, last.view[i].character) \notin Recs(last.recv))
  /\ (InCallback =>
        \A i \in 1..Len(cb.viewpoint) : cb.viewpoint[i].character # cb.character)

(* C9 (amended): the occupant located at the queried cell has exactly one  *)
(* entry in the viewpoint, at offset (0, 0), in direct calls and in the    *)
(* viewpoint tick() passes to move.                                        *)
C9_SelfIncluded ==
  /\ (last.op = "viewpoint" =>
        \A r \in Recs(last.recv) :
          (r.x = last.x /\ r.y = last.y) =>
            Cardinality({i \in 1..Len(last.view) :
                           last.view[i].character = r.character}) = 1
            /\ [dx |-> 0, dy |-> 0, character |-> r.character]
                 \in {last.view[i] : i \in 1..Len(last.view)})
  /\ (InCallback =>
        /\ Cardinality({i \in 1..Len(cb.viewpoint) :
                          cb.viewpoint[i].character = cb.character}) = 1
        /\ [dx |-> 0, dy |-> 0, character |-> cb.character]
             \in {cb.viewpoint[i] : i \in 1..Len(cb.viewpoint)})

C9_Witness ==
  /\ last.op = "viewpoint"
  /\ Len(last.recv.characters) >= 2
  /\ \E r \in Recs(last.recv) : r.x = last.x /\ r.y = last.y

(* C10: every placement away from the queried cell has exactly one entry   *)
(* in the viewpoint, its position rebased on the queried cell, and every   *)
(* entry of the viewpoint is the rebased position of some placement.       *)
C10_ViewpointEntries ==
  last.op = "viewpoint"
  => /\ \A r \in Recs(last.recv) :
          ~ (r.x = last.x /\ r.y = last.y) =>
            Cardinality({i \in 1..Len(last.view) :
                           last.view[i] = [dx |-> r.x - last.x, dy |-> r.y - last.y,
                                           character |-> r.character]}) = 1
     /\ \A i \in 1..Len(last.view) :
          CharRecord(last.view[i].dx + last.x, last.view[i].dy + last.y,
                     last.view[i].character) \in Recs(last.recv)

C10_Witness ==
  /\ last.op = "viewpoint"
  /\ Cardinality({r \in Recs(last.recv) : ~ (r.x = last.x /\ r.y = last.y)}) >= 2
  /\ Len(last.view) >= 3

\* the record of occupant o in World w
RecOf(w, o) == CHOOSE r \in Recs(w) : r.character = o

EntriesOf(view, o) == {view[i] : i \in {n \in 1..Len(view) : view[n].character = o}}

Entry(dx, dy, o) == [dx |-> dx, dy |-> dy, character |-> o]

(* C11: in the k-th invocation of tick()'s callback the viewpoint shows    *)
(* every occupant processed before at the cell it moved to and every       *)
(* occupant still to be processed at its start-of-tick cell, and the       *)
(* occupant never moves onto a cell taken by one processed before.         *)
C11_ProgressiveViewpoint ==
  InCallback =>
    /\ world.characters[k].character = cb.character
    /\ \A j \in 1..Len(world.characters) :
         LET o == world.characters[j].character
         IN /\ j < k =>
                 /\ EntriesOf(cb.viewpoint, o)
                      = {Entry(RecOf(acc, o).x - cb.x, RecOf(acc, o).y - cb.y, o)}
                 /\ ~ (/\ cb.x + cb.move.dx = RecOf(acc, o).x
                       /\ cb.y + cb.move.dy = RecOf(acc, o).y)
            /\ j > k =>
                 EntriesOf(cb.viewpoint, o)
                   = {Entry(world.characters[j].x - cb.x,
                            world.characters[j].y - cb.y, o)}

C11_Witness ==
  /\ InCallback
  /\ k >= 2
  /\ k < Len(world.characters)
  /\ cb.move # Vector(0, 0)
  /\ \E j \in 1..(k - 1) :
       LET o == world.characters[j].character
           stale == Move(cb.character, Viewpoint(world, cb.x, cb.y))
       IN /\ RecOf(acc, o) # world.characters[j]
          /\ RecOf(acc, o).x = cb.x + stale.dx
          /\ RecOf(acc, o).y = cb.y + stale.dy


(* C12: every delta Zombie.move returns has dx and dy in {-1, 0, 1}, and   *)
(* in the World tick() returns every occupant is at most one cell away,    *)
(* on each axis, from where the receiver had it.                           *)
C12_SingleStep ==
  /\ (InCallback => cb.move.dx \in Unit /\ cb.move.dy \in Unit)
  /\ ((last.op = "tick" /\ last.thrown = "none") =>
        \A r \in Recs(last.recv) :
          /\ RecOf(last.ret, r.character).x - r.x \in Unit
          /\ RecOf(last.ret, r.character).y - r.y \in Unit)

C12_Witness ==
  /\ last.op = "tick"
  /\ last.thrown = "none"
  /\ \E r \in Recs(last.recv) :
       /\ r.character \in Zombies
       /\ RecOf(last.ret, r.character).x - r.x \in {-1, 1}
       /\ RecOf(last.ret, r.character).y - r.y \in {-1, 1}

Abs(n) == IF n < 0 THEN -n ELSE n

Sq(e) == e.dx * e.dx + e.dy * e.dy

Entries(view) == {view[i] : i \in 1..Len(view)}

Living(view) == {e \in Entries(view) : e.character \in {FirstHuman, SecondHuman} \cup Humans}

\* the living entries no other living entry is strictly nearer than
Nearest(view) == {e \in Living(view) : \A f \in Living(view) : Sq(e) <= Sq(f)}

Adjacent(e) == Abs(e.dx) < 2 /\ Abs(e.dy) < 2

(* C13: Zombie.move returns the zero vector whenever the nearest target is *)
(* at most one cell away on both axes, whatever else is in the viewpoint,  *)
(* and a lone target two or more cells away on some axis does not count as *)
(* in biting range: the zombie moves.                                      *)
C13_BitingRange ==
  last.op = "move" =>
    /\ ((\E e \in Nearest(last.view) : Adjacent(e)) => last.move = Vector(0, 0))
    /\ \A e \in Entries(last.view) :
         (/\ Entries(last.view) \ {Entry(0, 0, Mover)} = {e}
          /\ e \in Living(last.view)
          /\ ~ Adjacent(e))
         => last.move # Vector(0, 0)

C13_Witness ==
  /\ last.op = "move"
  /\ Entry(1, 1, SecondHuman) \in Nearest(last.view)
  /\ Cardinality(Living(last.view)) = 2
  /\ Cardinality(Entries(last.view)) >= 4
  /\ last.move = Vector(0, 0)

Sign(n) == IF n < 0 THEN -1 ELSE IF n > 0 THEN 1 ELSE 0

(* C14: with a single human at offset (a, b), max(|a|, |b|) >= 2, and no   *)
(* other occupant in the viewpoint, Zombie.move returns (sign a, sign b).  *)
C14_DirectPursuit ==
  last.op = "move" =>
    \A e \in Entries(last.view) :
      (/\ Entries(last.view) \ {Entry(0, 0, Mover)} = {e}
       /\ e \in Living(last.view)
       /\ ~ Adjacent(e))
      => last.move = Vector(Sign(e.dx), Sign(e.dy))

C14_Witness ==
  /\ last.op = "move"
  /\ Entries(last.view) = {Entry(-1, 3, FirstHuman)}
  /\ last.move = Vector(-1, 1)

IsLiving(e) == e \in Living(<<e>>)

(* C15: the target Zombie.move selects is the living entry of smallest     *)
(* squared Euclidean distance, the first such entry of the viewpoint when  *)
(* several are equally near; it is never a zombie's entry, and there is no *)
(* finite target when the viewpoint has no living entry.                   *)
C15_NearestTarget ==
  last.op = "move" =>
    IF Living(last.view) = {}
    THEN last.target = Infinite
    ELSE \E i \in 1..Len(last.view) :
           /\ IsLiving(last.view[i])
           /\ last.target = Vector(last.view[i].dx, last.view[i].dy)
           /\ \A j \in 1..Len(last.view) :
                IsLiving(last.view[j]) =>
                  \/ Sq(last.view[i]) < Sq(last.view[j])
                  \/ (Sq(last.view[i]) = Sq(last.view[j]) /\ i <= j)

C15_Witness ==
  /\ last.op = "move"
  /\ Living(last.view) = {Entry(0, 2, FirstHuman), Entry(2, 0, SecondHuman)}
  /\ Entry(1, 0, OtherZombies[1]) \in Entries(last.view)
  /\ last.target = Vector(0, 2)

\* the offsets held by occupants other than the moving zombie
OtherOffsets(view) ==
  {<<e.dx, e.dy>> : e \in {f \in Entries(view) : f.character # Mover}}

\* the single moves whose offset no other occupant holds
FreeSteps(view) == (Unit \X Unit) \ OtherOffsets(view)

\* the ordered candidate list of the pursuit algorithm's step 5
Candidates(target) ==
  LET sx == Sign(target.dx)
      sy == Sign(target.dy)
  IN IF sx = 0 THEN <<<<0, sy>>, <<-1, sy>>, <<1, sy>>>>
     ELSE IF sy = 0 THEN <<<<sx, 0>>, <<sx, -1>>, <<sx, 1>>>>
     ELSE <<<<sx, sy>>, <<0, sy>>, <<sx, 0>>>>

\* the first candidate that is free, the zero move when none is
FirstFreeCandidate(target, view) ==
  LET cands == Candidates(target)
      free == {i \in 1..3 : cands[i] \in FreeSteps(view)}
  IN IF free = {} THEN Vector(0, 0)
     ELSE LET i == CHOOSE n \in free : \A o \in free : n <= o
          IN Vector(cands[i][1], cands[i][2])

Pursuing == /\ last.op = "move"
            /\ last.target # Infinite
            /\ ~ (Abs(last.target.dx) < 2 /\ Abs(last.target.dy) < 2)

\* a move's rank: squared distance left to the target, then the move's
\* own squared length, then its position in the list of single moves
Rank(m, target) ==
  <<(target.dx - m[1]) * (target.dx - m[1]) + (target.dy - m[2]) * (target.dy - m[2]),
    m[1] * m[1] + m[2] * m[2],
    3 * (m[1] + 1) + (m[2] + 1)>>

RankLeq(a, b) ==
  \/ a[1] < b[1]
  \/ a[1] = b[1] /\ a[2] < b[2]
  \/ a[1] = b[1] /\ a[2] = b[2] /\ a[3] <= b[3]

C17_NeverOntoOccupant ==
  last.op = "move" =>
    /\ last.move # Undefined
    /\ last.move # Vector(0, 0) => <<last.move.dx, last.move.dy>> \notin OtherOffsets(last.view)
    /\ Neighbours \subseteq OtherOffsets(last.view) => last.move = Vector(0, 0)

C17_Witness ==
  /\ Pursuing
  /\ Neighbours \subseteq OtherOffsets(last.view)
  /\ Entry(0, 0, Mover) \in Entries(last.view)
  /\ last.move = Vector(0, 0)

(* C18: a zombie whose viewpoint holds no living occupant is told to stay  *)
(* put, and tick() on a World without humans returns a World in which      *)
(* every occupant has the cell it had before.                              *)
C18_NoTargetNoMove ==
  /\ (InCallback /\ cb.character \in Zombies /\ Living(cb.viewpoint) = {})
       => cb.move = Vector(0, 0)
  /\ (last.op = "tick" /\ \A r \in Recs(last.recv) : r.character \notin Humans)
       => /\ last.thrown = "none"
          /\ Recs(last.ret) = Recs(last.recv)

C18_Witness ==
  /\ last.op = "tick"
  /\ {r.character : r \in Recs(last.recv)} = Zombies
  /\ \E r, q \in Recs(last.recv) : r.x = q.x /\ r.y - q.y = 2
  /\ Recs(last.ret) = Recs(last.recv)

(* C19: Human.move returns the zero delta for every viewpoint a tick hands *)
(* it, and every human has in the World tick() returns exactly the cell it *)
(* had in the World tick() was called on.                                  *)
C19_HumansStay ==
  /\ (InCallback /\ cb.character \in Humans) => cb.move = Vector(0, 0)
  /\ (last.op = "tick" /\ last.thrown = "none")
       => \A r \in Recs(last.recv) : r.character \in Humans => r \in Recs(last.ret)

C19_Witness ==
  /\ last.op = "tick"
  /\ last.thrown = "none"
  /\ \E r \in Recs(last.recv) : r.character \in Humans /\ r \in Recs(last.ret)
  /\ \E r \in Recs(last.recv) : r.character \in Zombies /\ r \notin Recs(last.ret)

(* C20: when, during tick(), an occupant's movement policy proposes a      *)
(* destination that a different occupant holds in the World the callback   *)
(* was given, tick() ends there with the occupied-cell error of            *)
(* withCharacterAt and returns no World: the move is neither skipped nor   *)
(* replaced, and no later occupant is asked to move.                       *)
C20_CollisionFailsTick ==
  (/\ cb # NoCb
   /\ HeldByOther(cb.world, cb.character, cb.x + cb.move.dx, cb.y + cb.move.dy))
  => /\ pc = "idle"
     /\ last.op = "tick"
     /\ last.thrown = "occupied"
     /\ last.ret = NoWorld
     /\ acc = NoWorld

C20_Witness ==
  /\ cb # NoCb
  /\ HeldByOther(cb.world, cb.character, cb.x + cb.move.dx, cb.y + cb.move.dy)
  /\ cb.world # last.recv
  /\ last.op = "tick"
  /\ last.thrown = "occupied"

(* C21 as stated: a placement list with an out-of-bounds placement, two    *)
(* placements on one cell or one occupant placed twice is rejected by the  *)
(* constructor, which then produces no World.                              *)
C21_ConstructorValidates ==
  (/\ last.op = "new"
   /\ last.arg # Omitted
   /\ ~ ValidPlacements(Width, Height, last.arg))
  => last.thrown # "none" /\ last.ret = NoWorld

(* C21 amended: the constructor validates nothing: whatever placement list *)
(* it is given, it throws nothing and produces a World holding exactly     *)
(* that list, in that order, also when the list has an out-of-bounds       *)
(* placement, a shared cell or a repeated occupant; with no list it        *)
(* produces the empty World.                                               *)
C21_ConstructorStoresList ==
  last.op = "new" =>
    /\ last.thrown = "none"
    /\ IsWorld(last.ret)
    /\ last.ret.width = Width /\ last.ret.height = Height
    /\ last.ret.characters = IF last.arg = Omitted THEN <<>> ELSE last.arg

C21_Witness ==
  /\ last.op = "new"
  /\ Len(last.arg) = 2
  /\ last.arg[1].x = last.arg[2].x /\ last.arg[1].y = last.arg[2].y
  /\ last.arg[1].character # last.arg[2].character
  /\ last.arg[1].x = Width
  /\ last.ret.characters = last.arg

(* C22: rows is a matrix of exactly height rows of exactly width cells,    *)
(* row y, column x holding an occupant placed at (x, y), or the empty      *)
(* value when no occupant is placed there; every cell of a World built     *)
(* without placements is empty.                                            *)
C22_RowsMatrix ==
  last.op = "rows" =>
    /\ Len(last.rows) = last.recv.height
    /\ \A y \in 1..Len(last.rows) :
         /\ Len(last.rows[y]) = last.recv.width
         /\ \A x \in 1..Len(last.rows[y]) :
              LET here == {r \in Recs(last.recv) : r.x = x - 1 /\ r.y = y - 1}
              IN IF here = {} THEN last.rows[y][x] = Null
                 ELSE last.rows[y][x] \in {r.character : r \in here}

C22_Witness ==
  /\ last.op = "rows"
  /\ \E r \in Recs(last.recv) :
       /\ r.x = 1 /\ r.y = 0
       /\ last.rows[1][2] = r.character
  /\ last.rows[2][1] = Null
  /\ last.rows[3][2] = Null

Populated == pc = "idle" /\ last.op = "populatedBy"

(* C23: populatedBy calls the generator exactly once per cell, width times *)
(* height calls in all, and the cells are visited with x in the outer loop *)
(* and y in the inner one: cell (x, y) of the returned World holds what    *)
(* call number x * height + y yielded, and is empty when that call yielded *)
(* nothing; the returned World has no other placement.                     *)
C23_PopulatedBy ==
  Populated =>
    /\ last.thrown = "none"
    /\ IsWorld(last.ret)
    /\ Len(last.arg) = Width * Height
    /\ \A x \in 0..(Width - 1), y \in 0..(Height - 1) :
         _at(last.ret, x, y) = last.arg[x * Height + y + 1]
    /\ InBounds(last.ret)
    /\ Len(last.ret.characters)
         = Cardinality({n \in 1..Len(last.arg) : last.arg[n] # Null})

C23_Witness ==
  /\ Populated
  /\ last.arg[1] # Null
  /\ last.arg[2] = Null
  /\ last.arg[Height + 1] = Null
  /\ last.arg[Height + 2] # Null
  /\ _at(last.ret, 0, 0) = last.arg[1]
  /\ _at(last.ret, 1, 1) = last.arg[Height + 2]
  /\ _at(last.ret, 1, 0) = Null

(* C24: Vector.Infinite is absorbing and farthest: adding a finite vector  *)
(* to it or subtracting one from it gives Vector.Infinite again, its       *)
(* distance is infinite, and the distance of every finite vector is        *)
(* strictly smaller.                                                       *)
C24_InfiniteAbsorbs ==
  /\ (last.op \in {"add", "sub"} /\ last.target = Infinite)
       => equals(last.ret, Infinite) /\ last.ret.dx = Infinity /\ last.ret.dy = Infinity
  /\ last.op = "distance" =>
       IF last.target = Infinite
       THEN last.value = Infinity
       ELSE last.value < distance(Infinite)

C24_Witness ==
  /\ last.op = "sub"
  /\ last.target = Infinite
  /\ last.move = Vector(-1, 2)
  /\ last.ret = Infinite

(* C25: the distance of a finite vector is dx * dx + dy * dy: it is not    *)
(* negative, it is the distance of the vector with either offset negated,  *)
(* and it is zero for the zero vector only.                                *)
C25_SquaredEuclidean ==
  (last.op = "distance" /\ last.target \in FiniteVectors) =>
    /\ last.value = last.target.dx * last.target.dx + last.target.dy * last.target.dy
    /\ last.value >= 0
    /\ last.value = distance(Vector(-last.target.dx, last.target.dy))
    /\ last.value = distance(Vector(last.target.dx, -last.target.dy))
    /\ last.value = 0 <=> last.target = Vector(0, 0)

C25_Witness ==
  /\ last.op = "distance"
  /\ last.target = Vector(-2, 1)
  /\ last.value = 5

(* C26: constructing a Vector with the x offset left out fails with        *)
(* 'Missing x offset', with only the y offset left out fails with          *)
(* 'Missing y offset', and in both cases no Vector is built; with both     *)
(* offsets given the Vector has exactly these offsets.                     *)
C26_MissingAxis ==
  last.op = "Vector" =>
    /\ ~ last.arg[1].given => last.thrown = "Missing x offset" /\ last.ret = NoVector
    /\ (last.arg[1].given /\ ~ last.arg[2].given)
         => last.thrown = "Missing y offset" /\ last.ret = NoVector
    /\ (last.arg[1].given /\ last.arg[2].given)
         => /\ last.thrown = "none"
            /\ last.ret = Vector(last.arg[1].value, last.arg[2].value)

C26_Witness ==
  /\ last.op = "Vector"
  /\ last.arg = <<Arg(1), NoArg>>
  /\ last.thrown = "Missing y offset"
  /\ last.ret = NoVector

\* the occupants of a World in the order of its placement list
Order(w) == [i \in 1..Len(w.characters) |-> w.characters[i].character]

Ticked == last.op = "tick" /\ last.thrown = "none"

(* C27: the World tick() returns holds every occupant of the World it was  *)
(* called on exactly once and no other occupant, whatever moves the        *)
(* occupants make.                                                         *)
C27_PopulationConserved ==
  Ticked =>
    /\ Len(last.ret.characters) = Len(last.recv.characters)
    /\ {r.character : r \in Recs(last.ret)} = {r.character : r \in Recs(last.recv)}
    /\ \A i, j \in 1..Len(last.ret.characters) :
         i # j => last.ret.characters[i].character # last.ret.characters[j].character

C27_Witness ==
  /\ Ticked
  /\ {r.character : r \in Recs(last.recv)} = Occupants
  /\ \A r \in Recs(last.recv) : r \notin Recs(last.ret)
  /\ {r.character : r \in Recs(last.ret)} = Occupants

(* C28: the occupants appear in the World tick() returns in the order they *)
(* have in the World it was called on, although every step of the fold     *)
(* moves the processed occupant's record to the end of the list.           *)
C28_OrderPreserved ==
  /\ Ticked => Order(last.ret) = Order(last.recv)
  /\ (InCallback /\ k > 0 /\ k <= Len(acc.characters))
       => acc.characters[Len(acc.characters)].character = cb.character

C28_Witness ==
  /\ Ticked
  /\ Len(last.recv.characters) = 3
  /\ Order(last.ret) = Order(last.recv)
  /\ last.ret.characters[1] # last.recv.characters[1]
  /\ last.ret.characters[3] # last.recv.characters[3]

(* C29: a non-zero move returned by Zombie.move is made toward a selected  *)
(* target and leaves the zombie strictly nearer to it, in squared          *)
(* Euclidean distance, than it was, also when the move is a fallback       *)
(* around an obstacle.                                                     *)
C29_StrictlyCloser ==
  (last.op = "move" /\ last.move # Undefined /\ last.move # Vector(0, 0)) =>
    /\ last.target # Infinite
    /\ (last.target.dx - last.move.dx) * (last.target.dx - last.move.dx)
         + (last.target.dy - last.move.dy) * (last.target.dy - last.move.dy)
       < last.target.dx * last.target.dx + last.target.dy * last.target.dy

C29_Witness ==
  /\ last.op = "move"
  /\ last.target = Vector(0, 3)
  /\ <<0, 1>> \in OtherOffsets(last.view)
  /\ last.move = Vector(-1, 1)

\* a human stands within one cell, on both axes, of the record's cell
HumanInReach(w, r) ==
  \E h \in Recs(w) :
    /\ h.character \in Humans
    /\ Abs(h.x - r.x) <= 1
    /\ Abs(h.y - r.y) <= 1

(* C30: a zombie that has a human within one cell of it on both axes is on *)
(* the same cell after every step that changes the driver's World, that    *)
(* is after every tick, wherever the other zombies stand and move; as the  *)
(* humans stay too, it is still in biting range then, and so in every      *)
(* later tick.                                                             *)
C30_BiterStays ==
  [][\A r \in Recs(world) :
       (r.character \in Zombies /\ HumanInReach(world, r))
         => (r \in Recs(world') /\ HumanInReach(world', r))]_vars

C30_Witness ==
  /\ Ticked
  /\ \E r, q \in Recs(last.recv) :
       /\ r.character \in Zombies /\ q.character \in Zombies
       /\ HumanInReach(last.recv, r)
       /\ r \in Recs(last.ret)
       /\ q \notin Recs(last.ret)

\* where each occupant of a World stands, whatever the order of the list
Positions(w) == Recs(w)

(* C31: from every World of the cast on distinct cells the driver loop     *)
(* reaches a World that tick() maps to a World with the same positions,    *)
(* and from then on no occupant moves again: every later tick returns the  *)
(* positions it was called on, and so does every value of its fold.        *)
C31_ReachesFixedPoint ==
  <>[](/\ Ticked => Positions(last.ret) = Positions(last.recv)
       /\ pc = "tick" => Positions(acc) = Positions(world))

\* a tick that moved nobody, of both zombies and a human, on a World no
\* loop starts from: the zombies walked there
C31_Witness ==
  /\ Ticked
  /\ Positions(last.ret) = Positions(last.recv)
  /\ {r.character : r \in Recs(last.recv)} = Occupants
  /\ ~ InBounds(last.recv)

====
